---- MODULE Spec2Model ----
(***************************************************************************)
(* A model of jetson/nav/rover.cpp: the Rover controller, its RoverStatus, *)
(* the status update with its target cache (updateRover) and the drive,    *)
(* turn and stop commands.                                                 *)
(*                                                                         *)
(* Doubles are modelled by integers: distances and bearings in whole       *)
(* units, wheel velocities and PID efforts in units of 1/EffortOne.        *)
(***************************************************************************)
EXTENDS Integers, Sequences, FiniteSets, TLC

VARIABLES
    mRoverStatus,         \* Rover::mRoverStatus, a RoverStatus record
    mLongMeterInMinutes,  \* Rover::mLongMeterInMinutes
    mBearingPid,          \* Rover::mBearingPid, the PidLoop's internal state
    published,            \* the commands the latest call handed to mLcmObject.publish
    call,                 \* the latest call: operation, arguments, return value, branches taken
    hist                  \* history counters over the sequence of updateRover calls

vars == << mRoverStatus, mLongMeterInMinutes, mBearingPid, published, call, hist >>

----------------------------------------------------------------------------
(* Configuration values (mRoverConfig) and literals of the code.           *)

\* navThresholds.noTargetDist; the code's own empty target uses -1 as well.
NoTargetDist == -1

\* navThresholds.cacheMissMax
CacheMissMax == 2

\* the literal 3 of "if( mRoverStatus.getLeftHits() >= 3 )"
MinLeftHits == 3

\* The model stops counting left hits here (the code's int keeps growing).
MaxHits == 4

\* 1.0 as a wheel velocity or an effort
EffortOne == 1000

\* navThresholds.waypointDistance and navThresholds.targetDistance
WaypointDistance == 3
TargetDistance == 2

\* navThresholds.drivingBearing and navThresholds.turningBearing (degrees)
DrivingBearing == 20
TurningBearing == 10

\* navThresholds.minTurningEffort
MinTurningEffort == 600

\* bearingPid.kP, kI, kD (effort per degree)
KP == 30
KI == 2
KD == 20

\* The model stops a PidLoop's accumulated error here, in either direction
\* (the code's double keeps growing).
MaxIntegral == 20

----------------------------------------------------------------------------
(* Data: targets, obstacles, odometry, waypoints, courses.                 *)

Target(distance, bearing, id) == [distance |-> distance, bearing |-> bearing, id |-> id]

\* {-1, 0, 0}: "the struct of an empty Target"
EmptyTarget == Target(-1, 0, 0)

Left7 == Target(5, 0, 7)
Left8 == Target(5, 0, 8)   \* same distance and bearing as Left7, another id
Right9 == Target(4, 10, 9)

LeftTargets == {EmptyTarget, Left7, Left8}
RightTargets == {EmptyTarget, Right9}

Obstacle(detected, bearing, distance) ==
    [detected |-> detected, bearing |-> bearing, distance |-> distance]

\* {0, 0, -1.0}: "empty obstacle --> distance is -1"
EmptyObstacle == Obstacle(0, 0, -1)

Obstacle1 == Obstacle(1, 20, 3)

Odometry(latd, latm, lond, lonm, bearing) ==
    [latitude_deg |-> latd, latitude_min |-> latm, longitude_deg |-> lond,
     longitude_min |-> lonm, bearing_deg |-> bearing]

ZeroOdometry == Odometry(0, 0, 0, 0, 0)
OdomHeading0 == Odometry(0, 0, 0, 0, 0)
OdomHeading350 == Odometry(0, 0, 0, 0, 350)
OdomLat60 == Odometry(60, 0, 0, 0, 0)

Waypoint(id, search, gate) == [id |-> id, search |-> search, gate |-> gate]

\* A Course is its waypoints[0 .. num_waypoints-1].
CourseNone == << >>
CourseOne == << Waypoint(7, TRUE, FALSE) >>
CourseTwo == << Waypoint(8, FALSE, FALSE), Waypoint(7, TRUE, TRUE) >>

Courses == {CourseNone, CourseOne, CourseTwo}

\* The ids a read of the front of an empty deque may yield.
GarbageIds == {0, 7, 8}

----------------------------------------------------------------------------
(* RoverStatus.                                                            *)

\* The members the constructor does not set, zeroed.
ZeroedMembers ==
    [mCourse |-> CourseNone, mPath |-> << >>, mPathTargets |-> 0,
     mOdometry |-> ZeroOdometry,
     countLeftMisses |-> 0, countRightMisses |-> 0,
     countLeftHits |-> 0, countRightHits |-> 0]

\* RoverStatus::RoverStatus()
RoverStatus ==
    [mCurrentState |-> "Off",
     mAutonState |-> FALSE,
     mCTargetLeft |-> EmptyTarget,
     mCTargetRight |-> EmptyTarget,
     mObstacle |-> EmptyObstacle,
     mTargetLeft |-> EmptyTarget,
     mTargetRight |-> EmptyTarget,
     mCourse |-> ZeroedMembers.mCourse,
     mPath |-> ZeroedMembers.mPath,
     mPathTargets |-> ZeroedMembers.mPathTargets,
     mOdometry |-> ZeroedMembers.mOdometry,
     countLeftMisses |-> ZeroedMembers.countLeftMisses,
     countRightMisses |-> ZeroedMembers.countRightMisses,
     countLeftHits |-> ZeroedMembers.countLeftHits,
     countRightHits |-> ZeroedMembers.countRightHits]

\* The snapshot the caller hands to updateRover: a RoverStatus of its own in
\* which it has set the auton flag, the course, the obstacle, the odometry
\* and the two live targets.
Snapshot(auton, course, obstacle, odometry, left, right) ==
    [RoverStatus EXCEPT !.mAutonState = auton, !.mCourse = course,
                        !.mObstacle = obstacle, !.mOdometry = odometry,
                        !.mTargetLeft = left, !.mTargetRight = right]

RECURSIVE CountTargets(_)
\* the number of waypoints of a sequence flagged search or gate
CountTargets(wps) ==
    IF wps = << >> THEN 0
    ELSE (IF Head(wps).search \/ Head(wps).gate THEN 1 ELSE 0) + CountTargets(Tail(wps))

RECURSIVE PathTargetsFrom(_, _)
\* the for loop of operator=: ++mPathTargets for each search or gate waypoint,
\* starting from the value mPathTargets has when the loop begins
PathTargetsFrom(start, wps) ==
    IF wps = << >> THEN start
    ELSE PathTargetsFrom(start + (IF Head(wps).search \/ Head(wps).gate THEN 1 ELSE 0),
                         Tail(wps))

\* the loop's start without the reset: the count of the course before
PathTargetsStart_Accumulate(old) == old.mPathTargets

\* mPathTargets = 0 before the loop
PathTargetsStart(old) == 0

\* RoverStatus::operator=: the members it copies; mCurrentState, countLeftHits
\* and countRightHits are not among its assignments.
Assign(old, new) ==
    [old EXCEPT !.mAutonState = new.mAutonState,
                !.mCourse = new.mCourse,
                !.mPath = new.mCourse,
                !.mPathTargets = PathTargetsFrom(PathTargetsStart(old), new.mCourse),
                !.mObstacle = new.mObstacle,
                !.mOdometry = new.mOdometry,
                !.mTargetLeft = new.mTargetLeft,
                !.mTargetRight = new.mTargetRight,
                !.mCTargetLeft = new.mCTargetLeft,
                !.mCTargetRight = new.mCTargetRight,
                !.countLeftMisses = new.countLeftMisses,
                !.countRightMisses = new.countRightMisses]

----------------------------------------------------------------------------
(* Equality of messages.                                                   *)

IsEqualObstacle(o1, o2) == o1.distance = o2.distance /\ o1.bearing = o2.bearing

IsEqualOdometry(o1, o2) ==
    /\ o1.latitude_deg = o2.latitude_deg
    /\ o1.latitude_min = o2.latitude_min
    /\ o1.longitude_deg = o2.longitude_deg
    /\ o1.longitude_min = o2.longitude_min
    /\ o1.bearing_deg = o2.bearing_deg

\* targets compared with their ids as well
IsEqualTarget_WithId(t1, t2) == t1 = t2

IsEqualTarget(t1, t2) == t1.distance = t2.distance /\ t1.bearing = t2.bearing

\* "If any data has changed": the condition of the On->On update
DataChanged(s, new) ==
    \/ ~IsEqualObstacle(s.mObstacle, new.mObstacle)
    \/ ~IsEqualOdometry(s.mOdometry, new.mOdometry)
    \/ ~IsEqualTarget(s.mTargetLeft, new.mTargetLeft)
    \/ ~IsEqualTarget(s.mTargetRight, new.mTargetRight)

----------------------------------------------------------------------------
(* updateRover: the status update and the target cache.                    *)

Min2(a, b) == IF a < b THEN a ELSE b

LeftDetected(s) == s.mTargetLeft.distance # NoTargetDist

RightDetected(s) == s.mTargetRight.distance # NoTargetDist

\* mRoverStatus.path().front().id: the front of an empty deque is undefined,
\* the read then yields whatever lies there.
FrontIds(s) == IF s.mPath = << >> THEN GarbageIds ELSE {Head(s.mPath).id}

\* a hit never resets the count
LeftHitsAfter_NoReset(hits, id, frontId) == hits + 1

\* "Associate with single post"
LeftHitsAfter(hits, id, frontId) == IF id = frontId THEN hits + 1 ELSE 0

\* promotion one hit late
EnoughLeftHits_Late(hits) == hits > MinLeftHits

\* "Update leftTarget if we have 3 or more consecutive hits"
EnoughLeftHits(hits) == hits >= MinLeftHits

\* eviction one miss late
MissesExceeded_Late(misses) == misses > CacheMissMax + 1

\* eviction one miss early
MissesExceeded_Early(misses) == misses >= CacheMissMax

\* "Check if we need to reset ... cache"
MissesExceeded(misses) == misses > CacheMissMax

\* the four members the On->On update copies
CopyData(s, new) ==
    [s EXCEPT !.mObstacle = new.mObstacle,
              !.mOdometry = new.mOdometry,
              !.mTargetLeft = new.mTargetLeft,
              !.mTargetRight = new.mTargetRight]

\* the right target cached on its own detection, with or without a left one
CacheTargets_RightAlone(s, frontId) ==
    LET hits == LeftHitsAfter(s.countLeftHits, s.mTargetLeft.id, frontId)
        promote == EnoughLeftHits(hits)
        left == IF LeftDetected(s)
                THEN [s EXCEPT !.countLeftHits = hits,
                               !.mCTargetLeft = IF promote THEN s.mTargetLeft ELSE @,
                               !.countLeftMisses = IF promote THEN 0 ELSE @]
                ELSE [s EXCEPT !.countLeftMisses = @ + 1,
                               !.countLeftHits = 0,
                               !.countRightHits = 0]
    IN  IF RightDetected(s)
        THEN [left EXCEPT !.mCTargetRight = s.mTargetRight, !.countRightMisses = 0]
        ELSE [left EXCEPT !.countRightMisses = @ + 1]

\* "Cache Left Target if we had detected one", with the right target inside
\* it, and the else branch that counts the misses
CacheTargets(s, frontId) ==
    IF LeftDetected(s)
    THEN LET hits == LeftHitsAfter(s.countLeftHits, s.mTargetLeft.id, frontId)
             promote == EnoughLeftHits(hits)
         IN  [s EXCEPT !.countLeftHits = hits,
                       !.mCTargetLeft = IF promote THEN s.mTargetLeft ELSE @,
                       !.countLeftMisses = IF promote THEN 0 ELSE @,
                       !.mCTargetRight = IF RightDetected(s) THEN s.mTargetRight ELSE @,
                       !.countRightMisses = IF RightDetected(s) THEN 0 ELSE @ + 1]
    ELSE [s EXCEPT !.countLeftMisses = @ + 1,
                   !.countRightMisses = @ + 1,
                   !.countLeftHits = 0,
                   !.countRightHits = 0]

\* "Check if we need to reset left cache"
ResetLeftCache(s) ==
    IF MissesExceeded(s.countLeftMisses)
    THEN [s EXCEPT !.countLeftMisses = 0, !.countLeftHits = 0, !.mCTargetLeft = EmptyTarget]
    ELSE s

\* "Check if we need to reset right cache"
ResetRightCache(s) ==
    IF MissesExceeded(s.countRightMisses)
    THEN [s EXCEPT !.countRightMisses = 0, !.countRightHits = 0, !.mCTargetRight = EmptyTarget]
    ELSE s

\* the On->Off branch as a whole-status assignment
TurnedOff_Assign(s, new) == Assign(s, new)

\* "Rover turned off": only the auton state is assigned
TurnedOff(s, new) == [s EXCEPT !.mAutonState = new.mAutonState]

\* the branch of updateRover a call takes
Branch(s, new) ==
    IF s.mAutonState
    THEN IF ~new.mAutonState THEN "OnOff"
         ELSE IF DataChanged(s, new) THEN "Changed" ELSE "Same"
    ELSE IF new.mAutonState THEN "OffOn" ELSE "OffOff"

\* "not updated" when the data has not changed
Returned_FalseWhenSame(branch) == branch \notin {"OffOff", "Same"}

\* the return statement of each branch
Returned(branch) ==
    CASE branch = "OnOff" -> TRUE
      [] branch = "Changed" -> TRUE
      [] branch = "Same" -> TRUE
      [] branch = "OffOn" -> TRUE
      [] branch = "OffOff" -> FALSE

\* the status after the call, given the id the front of the path yields
StatusAfter(s, new, branch, frontId) ==
        CASE branch = "OnOff" -> TurnedOff(s, new)
          [] branch = "Changed" ->
                ResetRightCache(ResetLeftCache(CacheTargets(CopyData(s, new), frontId)))
          [] branch = "Same" -> s
          [] branch = "OffOn" -> Assign(s, new)
          [] branch = "OffOff" -> s

\* 60 / ( EARTH_CIRCUM * cos( latitude ) / 360 ) in units of 1e-7 minutes per
\* meter, for the latitudes of the model (cos 0 = 1, cos 60 = 1/2)
LongMeterInMinutes(odometry) ==
    IF odometry.latitude_deg = 60 THEN 10780 ELSE 5390

\* what the counters of the call history become
HistAfter(s, new, branch, frontId) ==
    LET onOn == branch \in {"Changed", "Same"}
        changed == branch = "Changed"
        detected == new.mTargetLeft.distance # NoTargetDist
        matchCall == onOn /\ detected /\ s.mPath # << >>
                          /\ new.mTargetLeft.id = Head(s.mPath).id
        missCall == onOn /\ ~detected
        window(n, restart, cap) ==
            IF restart THEN 1 ELSE IF n > 0 THEN Min2(n + 1, cap) ELSE 0
    IN  [hitRun |->
            CASE branch = "Changed" ->
                    IF detected /\ new.mTargetLeft.id = frontId
                    THEN Min2(hist.hitRun + 1, MinLeftHits) ELSE 0
              [] branch = "Same" -> hist.hitRun
              [] branch = "OffOn" ->
                    IF detected /\ new.mCourse # << >>
                                /\ new.mTargetLeft.id = Head(new.mCourse).id
                    THEN 1 ELSE 0
              [] OTHER -> 0,
         matchCalls |->
            IF matchCall
            THEN window(hist.matchCalls, s.countLeftHits = 0, MinLeftHits) ELSE 0,
         matchChanged |->
            IF matchCall /\ changed
            THEN window(hist.matchChanged, s.countLeftHits = 0, MinLeftHits) ELSE 0,
         missCalls |->
            IF missCall
            THEN window(hist.missCalls,
                        hist.missCalls = 0 /\ s.mCTargetLeft # EmptyTarget,
                        CacheMissMax + 2)
            ELSE 0,
         missFromZero |->
            IF missCall /\ changed
            THEN window(hist.missFromZero, s.countLeftMisses = 0, CacheMissMax + 2) ELSE 0,
         missFromCached |->
            IF missCall /\ changed
            THEN IF s.countLeftMisses = 0 THEN s.mCTargetLeft # EmptyTarget
                 ELSE hist.missFromCached
            ELSE FALSE,
         sessions |->
            IF branch = "OffOn" THEN Min2(hist.sessions + 1, 2) ELSE hist.sessions,
         frontOfEmpty |->
            hist.frontOfEmpty \/ (changed /\ detected /\ s.mPath = << >>)]

HistInit ==
    [hitRun |-> 0, matchCalls |-> 0, matchChanged |-> 0, missCalls |-> 0,
     missFromZero |-> 0, missFromCached |-> FALSE, sessions |-> 0,
     frontOfEmpty |-> FALSE]

\* bool Rover::updateRover( RoverStatus newRoverStatus )
UpdateRover(new) ==
    \E branch \in {Branch(mRoverStatus, new)} :
    \E reads \in {branch = "Changed" /\ new.mTargetLeft.distance # NoTargetDist} :
    \E frontId \in (IF reads THEN FrontIds(mRoverStatus) ELSE {0}) :
    \E after \in {StatusAfter(mRoverStatus, new, branch, frontId)} :
    \E cached \in {IF branch = "Changed"
                   THEN CacheTargets(CopyData(mRoverStatus, new), frontId)
                   ELSE mRoverStatus} :
        /\ after.countLeftHits <= MaxHits
        /\ mRoverStatus' = after
        /\ mLongMeterInMinutes' =
              IF branch = "OffOn" THEN LongMeterInMinutes(after.mOdometry)
              ELSE mLongMeterInMinutes
        /\ published' = << >>
        /\ call' = [op |-> "updateRover",
                    ret |-> Returned(branch),
                    branch |-> branch,
                    wasAuton |-> mRoverStatus.mAutonState,
                    pathTargetsBefore |-> mRoverStatus.mPathTargets,
                    new |-> new,
                    readFront |-> reads,
                    frontOfEmpty |-> reads /\ mRoverStatus.mPath = << >>,
                    promotedLeft |-> /\ branch = "Changed"
                                     /\ LeftDetected(cached)
                                     /\ EnoughLeftHits(cached.countLeftHits),
                    promotedRight |-> /\ branch = "Changed"
                                      /\ LeftDetected(cached)
                                      /\ RightDetected(cached),
                    leftMissesChecked |->
                        IF branch = "Changed" THEN cached.countLeftMisses ELSE 0,
                    rightMissesChecked |->
                        IF branch = "Changed" THEN cached.countRightMisses ELSE 0]
        /\ hist' = HistAfter(mRoverStatus, new, branch, frontId)
        /\ UNCHANGED mBearingPid

\* The caller (the navigation state machine) consumes the waypoint at the
\* front of the path through the reference path() returns.
PopPath ==
    /\ mRoverStatus.mPath # << >>
    /\ mRoverStatus' = [mRoverStatus EXCEPT !.mPath = Tail(@)]
    /\ call' = [op |-> "path().pop_front"]
    /\ UNCHANGED << mLongMeterInMinutes, mBearingPid, published, hist >>

\* The caller sets the navigation state through the reference currentState()
\* returns.
SetNavState(state) ==
    /\ mRoverStatus.mCurrentState # state
    /\ mRoverStatus' = [mRoverStatus EXCEPT !.mCurrentState = state]
    /\ call' = [op |-> "currentState()=", state |-> state]
    /\ UNCHANGED << mLongMeterInMinutes, mBearingPid, published, hist >>

----------------------------------------------------------------------------
(* Bearings and the PidLoop.                                               *)

Abs(x) == IF x < 0 THEN -x ELSE x

Max2(a, b) == IF a > b THEN a ELSE b

\* fmod: the remainder with the sign of the dividend
Fmod(x, modulus) == IF x < 0 THEN -((-x) % modulus) ELSE x % modulus

\* mod( degree, modulus ): fmod, moved into [0, modulus)
Mod(degree, modulus) ==
    IF Fmod(degree, modulus) < 0 THEN Fmod(degree, modulus) + modulus
    ELSE Fmod(degree, modulus)

\* throughZero( destinationBearing, currentBearing ): the destination bearing,
\* moved by 360 when the two bearings are more than 180 apart
ThroughZero(destinationBearing, currentBearing) ==
    IF Abs(currentBearing - destinationBearing) > 180
    THEN (IF currentBearing < 180 THEN destinationBearing - 360
          ELSE destinationBearing + 360)
    ELSE destinationBearing

\* PidLoop::update( current, desired ): the effort, and the loop's state after
PidUpdate(pid, current, desired) ==
    LET err == desired - current
        total == pid.total + err
    IN  [effort |-> KP * err + KI * total + KD * (err - pid.lastError),
         state |-> [total |-> total, lastError |-> err]]

\* the PidLoop as constructed
PidInit == [total |-> 0, lastError |-> 0]

----------------------------------------------------------------------------
(* drive, turn, stop.                                                      *)

AutonDriveControl(leftVel, rightVel) ==
    [left_percent_velocity |-> leftVel, right_percent_velocity |-> rightVel]

DriveArrived_Inclusive(distance, target) ==
    \/ ~target /\ distance <= WaypointDistance
    \/ target /\ distance <= TargetDistance

\* the first condition of drive
DriveArrived(distance, target) ==
    \/ ~target /\ distance < WaypointDistance
    \/ target /\ distance < TargetDistance

DriveOnCourse_Inclusive(destinationBearing, bearing_deg) ==
    Abs(destinationBearing - bearing_deg) <= DrivingBearing

\* the second condition of drive
DriveOnCourse(destinationBearing, bearing_deg) ==
    Abs(destinationBearing - bearing_deg) < DrivingBearing

\* right_vel without the lower clamp
DriveRightVel_NoFloor(turningEffort) == Min2(EffortOne, EffortOne - turningEffort)

\* left_vel = min(1.0, max(0.0, 1.0 + turningEffort))
DriveLeftVel(turningEffort) == Min2(EffortOne, Max2(0, EffortOne + turningEffort))

\* right_vel = min(1.0, max(0.0, 1.0 - turningEffort))
DriveRightVel(turningEffort) == Min2(EffortOne, Max2(0, EffortOne - turningEffort))

\* the PidLoop updated before the course is checked
PidAfterDrive_Always(status, pid) == pid.state

\* mBearingPid.update is called in the OnCourse branch only
PidAfterDrive(status, pid) == IF status = "OnCourse" THEN pid.state ELSE mBearingPid

\* DriveStatus Rover::drive( const double distance, const double bearing, const bool target )
Drive(distance, bearing, target) ==
    \E heading \in {mRoverStatus.mOdometry.bearing_deg} :
    \E destinationBearing \in {ThroughZero(Mod(bearing, 360), heading)} :
    \E status \in {IF DriveArrived(distance, target) THEN "Arrived"
                   ELSE IF DriveOnCourse(destinationBearing, heading) THEN "OnCourse"
                   ELSE "OffCourse"} :
    \E pid \in {PidUpdate(mBearingPid, heading, destinationBearing)} :
        /\ status = "OnCourse" => Abs(pid.state.total) <= MaxIntegral
        /\ mBearingPid' = PidAfterDrive(status, pid)
        /\ published' =
              IF status = "OnCourse"
              THEN << AutonDriveControl(DriveLeftVel(pid.effort),
                                        DriveRightVel(pid.effort)) >>
              ELSE << >>
        /\ call' = [op |-> "drive", ret |-> status,
                    distance |-> distance, bearing |-> bearing, target |-> target,
                    heading |-> heading,
                    turningEffort |-> IF status = "OnCourse" THEN pid.effort ELSE 0]
        /\ UNCHANGED << mRoverStatus, mLongMeterInMinutes, hist >>

\* bool Rover::isTurningAroundObstacle( const NavState currentState )
IsTurningAroundObstacle(currentState) ==
    currentState = "TurnAroundObs" \/ currentState = "SearchTurnAroundObs"

\* the effort turn publishes for the effort of the PidLoop
TurnEffort(turningEffort, aroundObstacle) ==
    LET minTurningEffort == MinTurningEffort * (IF turningEffort < 0 THEN -1 ELSE 1)
    IN  IF aroundObstacle /\ Abs(turningEffort) < minTurningEffort
        THEN minTurningEffort
        ELSE turningEffort

\* the tolerance of a turn in place, whatever the navigation state
TurningBearingThreshold_Always(aroundObstacle) == TurningBearing

\* turningBearingThreshold: 0 around an obstacle, else navThresholds.turningBearing
TurningBearingThreshold(aroundObstacle) ==
    IF aroundObstacle THEN 0 ELSE TurningBearing

\* right_vel without the clamps
TurnRightVel_Unclamped(turningEffort) == -turningEffort

\* left_vel = max(min(1.0, turningEffort), -1.0)
TurnLeftVel(turningEffort) == Max2(Min2(EffortOne, turningEffort), -EffortOne)

\* right_vel = max(min(1.0, -turningEffort), -1.0)
TurnRightVel(turningEffort) == Max2(Min2(EffortOne, -turningEffort), -EffortOne)

\* bool Rover::turn( double bearing )
Turn(bearing) ==
    \E heading \in {mRoverStatus.mOdometry.bearing_deg} :
    \E destinationBearing \in {ThroughZero(Mod(bearing, 360), heading)} :
    \E aroundObstacle \in {IsTurningAroundObstacle(mRoverStatus.mCurrentState)} :
    \E turningBearingThreshold \in {TurningBearingThreshold(aroundObstacle)} :
    \E aligned \in {Abs(destinationBearing - heading) <= turningBearingThreshold} :
    \E pid \in {PidUpdate(mBearingPid, heading, destinationBearing)} :
    \E turningEffort \in {TurnEffort(pid.effort, aroundObstacle)} :
        /\ ~aligned => Abs(pid.state.total) <= MaxIntegral
        /\ mBearingPid' = IF aligned THEN mBearingPid ELSE pid.state
        /\ published' =
              IF aligned THEN << >>
              ELSE << AutonDriveControl(TurnLeftVel(turningEffort),
                                        TurnRightVel(turningEffort)) >>
        /\ call' = [op |-> "turn", ret |-> aligned, bearing |-> bearing,
                    heading |-> heading, aroundObstacle |-> aroundObstacle,
                    pidEffort |-> IF aligned THEN 0 ELSE pid.effort,
                    turningEffort |-> IF aligned THEN 0 ELSE turningEffort]
        /\ UNCHANGED << mRoverStatus, mLongMeterInMinutes, hist >>

\* void Rover::stop()
Stop ==
    /\ published' = << AutonDriveControl(0, 0) >>
    /\ call' = [op |-> "stop"]
    /\ UNCHANGED << mRoverStatus, mLongMeterInMinutes, mBearingPid, hist >>

----------------------------------------------------------------------------
(* The state after construction, and the specification of the target cache. *)

Init ==
    /\ mRoverStatus = RoverStatus
    /\ mLongMeterInMinutes = -1
    /\ mBearingPid = PidInit
    /\ published = << >>
    /\ call = [op |-> "Rover"]
    /\ hist = HistInit

\* The snapshots of the cache specification: every course and live target,
\* two odometries. A snapshot with auton off is read no further than its
\* flag, and while auton is on the caller keeps sending the course it started
\* with (updateRover does not read the course of an On->On snapshot).
CacheSnapshots ==
    {Snapshot(FALSE, CourseNone, EmptyObstacle, OdomHeading0, EmptyTarget, EmptyTarget)}
    \cup {Snapshot(TRUE, c, EmptyObstacle, o, l, r) :
            c \in Courses, o \in {OdomHeading0, OdomHeading350},
            l \in LeftTargets, r \in RightTargets}

UpdateRoverCache ==
    \E new \in CacheSnapshots :
        /\ (mRoverStatus.mAutonState /\ new.mAutonState) => new.mCourse = mRoverStatus.mCourse
        /\ UpdateRover(new)

NextCache == UpdateRoverCache \/ PopPath

SpecCache == Init /\ [][NextCache]_vars

----------------------------------------------------------------------------
(* The specification of the status update: snapshots that differ in every  *)
(* member the caller sets, with auton on and off, and single drive, turn   *)
(* and stop commands in between.                                           *)

\* obstacle, odometry, left and right live target of a snapshot
StatusData ==
    { << EmptyObstacle, OdomHeading0, EmptyTarget, EmptyTarget >>,
      << Obstacle1, OdomLat60, Left7, Right9 >>,
      << Obstacle1, OdomLat60, Left8, Right9 >> }

StatusSnapshots ==
    {Snapshot(TRUE, c, d[1], d[2], d[3], d[4]) :
        c \in {CourseOne, CourseTwo}, d \in StatusData}
    \cup {Snapshot(FALSE, CourseTwo, EmptyObstacle, OdomHeading0, EmptyTarget, EmptyTarget),
          Snapshot(FALSE, CourseOne, Obstacle1, OdomLat60, Left7, Right9)}

UpdateRoverStatus == \E new \in StatusSnapshots : UpdateRover(new)

SetNavStateStatus == \E state \in {"Off", "TurnAroundObs"} : SetNavState(state)

\* distance and bearing of a drive that arrives, one on course, one off course
DriveStatusInputs == { << 2, 0 >>, << 4, 0 >>, << 4, 20 >> }

DriveStatus == \E d \in DriveStatusInputs : Drive(d[1], d[2], FALSE)

TurnStatus == \E bearing \in {0, 20} : Turn(bearing)

NextStatus ==
    \/ UpdateRoverStatus
    \/ PopPath
    \/ SetNavStateStatus
    \/ DriveStatus
    \/ TurnStatus
    \/ Stop

SpecStatus == Init /\ [][NextStatus]_vars

----------------------------------------------------------------------------
(* The specification of the commands: drive and turn over distances around *)
(* the two arrival thresholds and bearings on both sides of the heading,   *)
(* with headings on both sides of north and every navigation state.        *)

NavStates == {"Turn", "TurnAroundObs", "SearchTurnAroundObs"}

Distances == {1, 2, 3}

Bearings == {-10, 0, 10, 20, 330, 370}

ControlSnapshots ==
    {Snapshot(TRUE, CourseNone, EmptyObstacle, o, EmptyTarget, EmptyTarget) :
        o \in {OdomHeading0, OdomHeading350}}

UpdateRoverControl == \E new \in ControlSnapshots : UpdateRover(new)

SetNavStateControl == \E state \in NavStates : SetNavState(state)

DriveControl ==
    \E distance \in Distances, bearing \in Bearings, target \in BOOLEAN :
        Drive(distance, bearing, target)

TurnControl == \E bearing \in Bearings : Turn(bearing)

NextControl ==
    \/ UpdateRoverControl
    \/ SetNavStateControl
    \/ DriveControl
    \/ TurnControl
    \/ Stop

SpecControl == Init /\ [][NextControl]_vars

----------------------------------------------------------------------------
(* The target cache: promotion and eviction (checked under SpecCache).     *)
(*                                                                         *)
(* The counters of hist, each over the updateRover calls so far:           *)
(*   hitRun        the detections in a row, in this auton session, that    *)
(*                 the code counted as hits (an On->On call that changes   *)
(*                 nothing neither adds to the row nor breaks it);         *)
(*   matchCalls    the On->On calls in a row with a detected left target   *)
(*                 whose id is that of the front of the path, from a call  *)
(*                 that began with countLeftHits = 0;                      *)
(*   matchChanged  the same, every call of the row having changed data;    *)
(*   missCalls     the On->On calls in a row with no left target, from a   *)
(*                 call that began with a cached left target;              *)
(*   missFromZero  the On->On calls in a row with no left target and with  *)
(*                 changed data, from a call that began with               *)
(*                 countLeftMisses = 0; missFromCached: that call began    *)
(*                 with a cached left target;                              *)
(*   sessions      the Off->On calls (counted up to 2);                    *)
(*   frontOfEmpty  some call has read the front of an empty path.          *)

AfterUpdate == call.op = "updateRover"

\* C1: the left cache slot is overwritten with the live left target only in
\* a call that is at least the third in a row of detections of the id at the
\* front of the path, hits of an earlier auton session not counting; and a
\* detection of another id sets countLeftHits to 0. (Stated for the runs in
\* which every read of the front of the path found a waypoint.)
C1_PromotionNeedsThreeMatches ==
    (AfterUpdate /\ ~hist.frontOfEmpty) =>
        /\ call.promotedLeft => hist.hitRun >= MinLeftHits
        /\ ( /\ call.branch = "Changed"
             /\ LeftDetected(mRoverStatus)
             /\ mRoverStatus.mPath # << >>
             /\ mRoverStatus.mTargetLeft.id # Head(mRoverStatus.mPath).id )
           => mRoverStatus.countLeftHits = 0

\* C2 as stated: after three On->On calls in a row that carry a detected left
\* target with the id of the front of the path, the first of them starting
\* with countLeftHits = 0, the left cache slot is the live left target and
\* countLeftMisses is 0 - whether or not the snapshots differ from the status.
C2_ThreeMatchingCallsPromote ==
    (AfterUpdate /\ hist.matchCalls = MinLeftHits) =>
        /\ mRoverStatus.mCTargetLeft = call.new.mTargetLeft
        /\ mRoverStatus.countLeftMisses = 0

\* C2 amended: the same, for three calls in a row each of which changes the
\* obstacle, the odometry or a live target (distance or bearing).
C2_ThreeChangedMatchesPromote ==
    (AfterUpdate /\ hist.matchChanged = MinLeftHits) =>
        /\ mRoverStatus.mCTargetLeft = call.new.mTargetLeft
        /\ mRoverStatus.countLeftMisses = 0

C2_Witness ==
    /\ AfterUpdate
    /\ hist.matchChanged = MinLeftHits
    /\ call.promotedLeft
    /\ mRoverStatus.countLeftHits = MinLeftHits
    /\ mRoverStatus.mCTargetLeft = Left7

\* C3 as stated: after cacheMissMax+1 On->On calls in a row without a left
\* detection, the first of them starting with a cached left target, the left
\* cache slot is the empty target and countLeftMisses and countLeftHits are 0.
\* (Stated for the runs in which every read of the front of the path found a
\* waypoint.)
C3_MissCallsEvict ==
    (AfterUpdate /\ ~hist.frontOfEmpty /\ hist.missCalls = CacheMissMax + 1) =>
        /\ mRoverStatus.mCTargetLeft = EmptyTarget
        /\ mRoverStatus.countLeftMisses = 0
        /\ mRoverStatus.countLeftHits = 0

\* C3 amended: the same, for calls each of which changes the obstacle, the
\* odometry or a live target, the first of them starting with
\* countLeftMisses = 0.
C3_ChangedMissesEvict ==
    (AfterUpdate /\ hist.missFromZero = CacheMissMax + 1) =>
        /\ mRoverStatus.mCTargetLeft = EmptyTarget
        /\ mRoverStatus.countLeftMisses = 0
        /\ mRoverStatus.countLeftHits = 0

C3_Witness ==
    /\ AfterUpdate
    /\ hist.missFromZero = CacheMissMax + 1
    /\ hist.missFromCached
    /\ mRoverStatus.mCTargetLeft = EmptyTarget

\* what an updateRover step leaves of the miss counts
MissCountsBounded ==
    /\ mRoverStatus'.countLeftMisses <= CacheMissMax
    /\ mRoverStatus'.countRightMisses <= CacheMissMax
    /\ call'.leftMissesChecked > CacheMissMax =>
          /\ mRoverStatus'.mCTargetLeft = EmptyTarget
          /\ mRoverStatus'.countLeftMisses = 0
          /\ mRoverStatus'.countLeftHits = 0
    /\ call'.rightMissesChecked > CacheMissMax =>
          /\ mRoverStatus'.mCTargetRight = EmptyTarget
          /\ mRoverStatus'.countRightMisses = 0
          /\ mRoverStatus'.countRightHits = 0

\* a slot that an updateRover step empties had its miss count above the maximum
EmptiedOnlyAboveMax ==
    /\ (mRoverStatus.mCTargetLeft # EmptyTarget /\ mRoverStatus'.mCTargetLeft = EmptyTarget)
          => call'.leftMissesChecked > CacheMissMax
    /\ (mRoverStatus.mCTargetRight # EmptyTarget /\ mRoverStatus'.mCTargetRight = EmptyTarget)
          => call'.rightMissesChecked > CacheMissMax

\* C4 as stated: after every updateRover call neither miss count is above
\* cacheMissMax (a count that exceeded it left an empty slot and zero counts),
\* and no updateRover call empties a slot whose miss count did not exceed it.
\* (Stated for the runs in which every read of the front of the path found a
\* waypoint.)
C4_EvictionExactlyAtThreshold ==
    [][(call'.op = "updateRover" /\ ~hist'.frontOfEmpty)
          => (MissCountsBounded /\ EmptiedOnlyAboveMax)]_vars

\* C4 amended: the same, the second half for the calls with auton on before
\* and in the snapshot (the Off->On call replaces both slots by the snapshot's).
C4_EvictionAtThresholdWhileOn ==
    [][call'.op = "updateRover" =>
          /\ MissCountsBounded
          /\ (mRoverStatus.mAutonState /\ call'.new.mAutonState) => EmptiedOnlyAboveMax]_vars

C4_Witness ==
    /\ AfterUpdate
    /\ call.branch = "Changed"
    /\ call.leftMissesChecked = CacheMissMax + 1
    /\ call.rightMissesChecked = CacheMissMax + 1
    /\ hist.missFromCached
    /\ mRoverStatus.mCTargetLeft = EmptyTarget
    /\ mRoverStatus.mCTargetRight = EmptyTarget

----------------------------------------------------------------------------
(* The status update: return value and frame (checked under SpecStatus).   *)

C6_TurnOffChangesOnlyAutonFlag ==
    [][(call'.op = "updateRover" /\ mRoverStatus.mAutonState /\ ~call'.new.mAutonState)
          => mRoverStatus' = [mRoverStatus EXCEPT !.mAutonState = FALSE]]_vars

\* an On->Off call on a status with a cached right target, left hits and a
\* navigation state, whose snapshot differs from it in every member it sets
C6_Witness ==
    /\ call.op = "updateRover"
    /\ call.branch = "OnOff"
    /\ ~mRoverStatus.mAutonState
    /\ mRoverStatus.mCTargetRight # EmptyTarget
    /\ mRoverStatus.countLeftHits > 0
    /\ mRoverStatus.mCurrentState # "Off"
    /\ call.new.mCourse # mRoverStatus.mCourse
    /\ call.new.mObstacle # mRoverStatus.mObstacle
    /\ call.new.mOdometry # mRoverStatus.mOdometry
    /\ call.new.mTargetLeft # mRoverStatus.mTargetLeft
    /\ call.new.mTargetRight # mRoverStatus.mTargetRight

\* C7: after every Off->On updateRover the path is the incoming course's
\* waypoints in order and mPathTargets is the number of them flagged search
\* or gate, and every updateRover, drive, turn and stop call that starts with
\* mPathTargets equal to the number of such waypoints in the path ends so.
C7_PathTargetsCountPath ==
    [][/\ (call'.op = "updateRover" /\ ~mRoverStatus.mAutonState /\ call'.new.mAutonState)
            => /\ mRoverStatus'.mPath = call'.new.mCourse
               /\ mRoverStatus'.mPathTargets = CountTargets(call'.new.mCourse)
       /\ (/\ call'.op \in {"updateRover", "drive", "turn", "stop"}
           /\ mRoverStatus.mPathTargets = CountTargets(mRoverStatus.mPath))
            => mRoverStatus'.mPathTargets = CountTargets(mRoverStatus'.mPath)]_vars

\* the Off->On call of a second session, on a status that counted a target
\* of the first session's course
C7_Witness ==
    /\ call.op = "updateRover"
    /\ call.branch = "OffOn"
    /\ hist.sessions = 2
    /\ call.pathTargetsBefore > 0
    /\ mRoverStatus.mPath = CourseTwo
    /\ mRoverStatus.mPathTargets = 1

----------------------------------------------------------------------------
(* drive and turn (checked under SpecControl).                             *)

\* the angle between two bearings, the short way round
Separation(bearing1, bearing2) ==
    Min2((bearing2 - bearing1) % 360, 360 - ((bearing2 - bearing1) % 360))

ArrivalThreshold(target) == IF target THEN TargetDistance ELSE WaypointDistance

\* C8: drive returns Arrived if and only if the distance is strictly below
\* waypointDistance (target false) or targetDistance (target true), for every
\* bearing and heading.
C8_ArrivedIffStrictlyBelow ==
    call.op = "drive" =>
        ((call.ret = "Arrived") <=> (call.distance < ArrivalThreshold(call.target)))

\* a drive to a target at exactly targetDistance, which has not arrived
C8_Witness ==
    /\ call.op = "drive"
    /\ call.target
    /\ call.distance = TargetDistance
    /\ call.ret # "Arrived"

\* C9: a drive call that returns OnCourse published exactly one command, one
\* that returns OffCourse or Arrived published none, and it returns OnCourse
\* exactly when the distance is not below the arrival threshold and the angle
\* between heading and bearing is (strictly) below drivingBearing.
C9_OneCommandIffOnCourse ==
    call.op = "drive" =>
        /\ call.ret = "OnCourse" => Len(published) = 1
        /\ call.ret \in {"OffCourse", "Arrived"} => Len(published) = 0
        /\ (call.ret = "OnCourse") <=>
              /\ ~(call.distance < ArrivalThreshold(call.target))
              /\ Separation(call.heading, call.bearing) < DrivingBearing

\* an OnCourse drive across north: heading 350, bearing 0
C9_Witness ==
    /\ call.op = "drive"
    /\ call.ret = "OnCourse"
    /\ call.heading = 350
    /\ call.bearing = 0
    /\ Len(published) = 1

\* C10: a turn around an obstacle that is not aligned publishes an effort of
\* magnitude at least minTurningEffort (at most 1.0) with the sign of the
\* effort of the PidLoop.
C10_MinTurningEffortEnforced ==
    (call.op = "turn" /\ call.aroundObstacle /\ ~call.ret) =>
        /\ Len(published) = 1
        /\ Abs(published[1].left_percent_velocity) >= Min2(MinTurningEffort, EffortOne)
        /\ call.pidEffort > 0 => published[1].left_percent_velocity > 0
        /\ call.pidEffort < 0 => published[1].left_percent_velocity < 0

\* C11: turn returns true and publishes nothing exactly when the angle between
\* heading and bearing is at most the tolerance, 0 when the navigation state is
\* turning around an obstacle and turningBearing otherwise; in every other case
\* it publishes exactly one command and returns false.
C11_AlignedIffWithinTolerance ==
    call.op = "turn" =>
        /\ call.ret <=>
              Separation(call.heading, call.bearing)
                 <= (IF call.aroundObstacle THEN 0 ELSE TurningBearing)
        /\ call.ret => Len(published) = 0
        /\ ~call.ret => Len(published) = 1

\* a turn around an obstacle across north, off by no more than turningBearing
\* and so not aligned
C11_Witness ==
    /\ call.op = "turn"
    /\ call.aroundObstacle
    /\ call.heading = 350
    /\ call.bearing = 0
    /\ ~call.ret
    /\ Len(published) = 1

\* C12: the command drive publishes when OnCourse has left and right in [0, 1]
\* and the larger of them 1: left = 1 and right = max(0, 1 - e) for an effort
\* e >= 0, right = 1 and left = max(0, 1 + e) for e < 0.
C12_DriveVelocities ==
    (call.op = "drive" /\ call.ret = "OnCourse") =>
        /\ Len(published) = 1
        /\ published[1].left_percent_velocity \in 0..EffortOne
        /\ published[1].right_percent_velocity \in 0..EffortOne
        /\ Max2(published[1].left_percent_velocity,
                published[1].right_percent_velocity) = EffortOne
        /\ call.turningEffort >= 0 =>
              /\ published[1].left_percent_velocity = EffortOne
              /\ published[1].right_percent_velocity =
                    Max2(0, EffortOne - call.turningEffort)
        /\ call.turningEffort < 0 =>
              /\ published[1].right_percent_velocity = EffortOne
              /\ published[1].left_percent_velocity =
                    Max2(0, EffortOne + call.turningEffort)

\* an OnCourse drive whose effort is above 1.0: the right wheel stands
C12_Witness ==
    /\ call.op = "drive"
    /\ call.ret = "OnCourse"
    /\ call.turningEffort > EffortOne
    /\ published = << AutonDriveControl(EffortOne, 0) >>

\* C13: the command turn publishes has left = -right, both in [-1, 1]: left is
\* the effort (after the minimum-effort adjustment) clamped to [-1, 1], right
\* the negated effort clamped to [-1, 1].
C13_TurnVelocities ==
    (call.op = "turn" /\ ~call.ret) =>
        /\ Len(published) = 1
        /\ published[1].left_percent_velocity \in (-EffortOne)..EffortOne
        /\ published[1].right_percent_velocity \in (-EffortOne)..EffortOne
        /\ published[1].left_percent_velocity = -published[1].right_percent_velocity
        /\ published[1].left_percent_velocity =
              Max2(-EffortOne, Min2(EffortOne, call.turningEffort))
        /\ published[1].right_percent_velocity =
              Max2(-EffortOne, Min2(EffortOne, -call.turningEffort))

\* a turn whose effort is below -1.0: both wheels at their limits
C13_Witness ==
    /\ call.op = "turn"
    /\ ~call.ret
    /\ call.turningEffort < -EffortOne
    /\ published = << AutonDriveControl(-EffortOne, EffortOne) >>

----------------------------------------------------------------------------
(* The target cache: counters and the right slot (checked under SpecCache). *)

\* the snapshot of the latest call left the hit count of the left side without
\* a hit: no left target, or one whose id is not that of the front of the path
LeftHitBroken ==
    \/ ~LeftDetected(call.new)
    \/ /\ mRoverStatus.mPath # << >>
       /\ call.new.mTargetLeft.id # Head(mRoverStatus.mPath).id

\* the resets of the counters after the latest call
CountersReset ==
    /\ LeftHitBroken => mRoverStatus.countLeftHits = 0
    /\ ~RightDetected(call.new) => mRoverStatus.countRightHits = 0
    /\ call.promotedLeft => mRoverStatus.countLeftMisses = 0
    /\ call.promotedRight => mRoverStatus.countRightMisses = 0

\* C14 as stated: after every updateRover call with auton on before and after,
\* a side's hit count is 0 if the snapshot's live target of that side was
\* undetected or (left) had an id other than that of the front of the path,
\* and a side's miss count is 0 after a call that promoted into its slot.
\* (Stated for the runs in which every read of the front of the path found a
\* waypoint.)
C14_CounterResets ==
    (AfterUpdate /\ ~hist.frontOfEmpty /\ call.branch \in {"Changed", "Same"})
        => CountersReset

\* C14 for the calls that process a change: the same, after every On->On call
\* whose snapshot differs from the stored obstacle, odometry or live targets.
C14_CounterResetsWhenChanged ==
    (AfterUpdate /\ call.branch = "Changed") => CountersReset

\* a processed call with a left target of another id than the front of the
\* path, on a status that has a cached left target: the hits are back to 0
C14_Witness ==
    /\ AfterUpdate
    /\ call.branch = "Changed"
    /\ ~hist.frontOfEmpty
    /\ LeftDetected(call.new)
    /\ mRoverStatus.mPath # << >>
    /\ call.new.mTargetLeft.id # Head(mRoverStatus.mPath).id
    /\ mRoverStatus.mCTargetLeft # EmptyTarget
    /\ mRoverStatus.countLeftHits = 0

\* C15: the miss counts are counts of consecutive updates without a detection:
\* after an On->On update that processed a snapshot with a detected left target
\* countLeftMisses is 0, and after one with both targets detected
\* countRightMisses is 0.
C15_DetectionEndsMissRun ==
    (AfterUpdate /\ ~hist.frontOfEmpty /\ call.branch = "Changed"
                 /\ LeftDetected(call.new)) =>
        /\ mRoverStatus.countLeftMisses = 0
        /\ RightDetected(call.new) => mRoverStatus.countRightMisses = 0

\* C16: in an On->On update that processes a change the right cache slot
\* becomes the live right target and countRightMisses 0 exactly when both live
\* targets are detected, whatever the hits and ids; in every other processed
\* update countRightMisses is one more than before when the eviction check
\* reads it, and the right cache slot is not promoted: it keeps its value or
\* is emptied by the eviction.
C16_RightSlotCaching ==
    [][(call'.op = "updateRover" /\ call'.branch = "Changed") =>
          IF LeftDetected(call'.new) /\ RightDetected(call'.new)
          THEN /\ call'.rightMissesChecked = 0
               /\ mRoverStatus'.mCTargetRight = call'.new.mTargetRight
               /\ mRoverStatus'.countRightMisses = 0
          ELSE /\ call'.rightMissesChecked = mRoverStatus.countRightMisses + 1
               /\ mRoverStatus'.mCTargetRight =
                     IF call'.rightMissesChecked > CacheMissMax
                     THEN EmptyTarget ELSE mRoverStatus.mCTargetRight]_vars

\* a processed update with a left target of another id than the front of the
\* path (no hit) and a right target, which is cached at once
C16_Witness ==
    /\ AfterUpdate
    /\ call.branch = "Changed"
    /\ ~hist.frontOfEmpty
    /\ mRoverStatus.mPath # << >>
    /\ call.new.mTargetLeft = Left8
    /\ Head(mRoverStatus.mPath).id # Left8.id
    /\ call.new.mTargetRight = Right9
    /\ mRoverStatus.countLeftHits = 0
    /\ mRoverStatus.mCTargetRight = Right9
    /\ mRoverStatus.countRightMisses = 0

----------------------------------------------------------------------------
(* The status update and the commands: frames (checked under SpecStatus).  *)

\* the snapshot equals the stored status in obstacle (bearing, distance),
\* odometry (latitude and longitude in degrees and minutes, heading) and both
\* live targets (distance, bearing)
SameData(s, new) ==
    /\ s.mObstacle.bearing = new.mObstacle.bearing
    /\ s.mObstacle.distance = new.mObstacle.distance
    /\ s.mOdometry = new.mOdometry
    /\ s.mTargetLeft.distance = new.mTargetLeft.distance
    /\ s.mTargetLeft.bearing = new.mTargetLeft.bearing
    /\ s.mTargetRight.distance = new.mTargetRight.distance
    /\ s.mTargetRight.bearing = new.mTargetRight.bearing

C18_BulkReplaceOnTurnOn ==
    [][call'.op = "updateRover" =>
          IF ~mRoverStatus.mAutonState /\ call'.new.mAutonState
          THEN /\ mRoverStatus'.mAutonState = call'.new.mAutonState
               /\ mRoverStatus'.mCourse = call'.new.mCourse
               /\ mRoverStatus'.mPath = call'.new.mCourse
               /\ mRoverStatus'.mObstacle = call'.new.mObstacle
               /\ mRoverStatus'.mOdometry = call'.new.mOdometry
               /\ mRoverStatus'.mTargetLeft = call'.new.mTargetLeft
               /\ mRoverStatus'.mTargetRight = call'.new.mTargetRight
               /\ mRoverStatus'.mCTargetLeft = call'.new.mCTargetLeft
               /\ mRoverStatus'.mCTargetRight = call'.new.mCTargetRight
               /\ mRoverStatus'.countLeftMisses = call'.new.countLeftMisses
               /\ mRoverStatus'.countRightMisses = call'.new.countRightMisses
               /\ mRoverStatus'.countLeftHits = call'.new.countLeftHits
               /\ mRoverStatus'.countRightHits = call'.new.countRightHits
          ELSE /\ mRoverStatus'.mCourse = mRoverStatus.mCourse
               /\ mRoverStatus'.mPath = mRoverStatus.mPath
               /\ call'.branch # "Changed" =>
                     /\ mRoverStatus'.mCTargetLeft = mRoverStatus.mCTargetLeft
                     /\ mRoverStatus'.mCTargetRight = mRoverStatus.mCTargetRight]_vars

\* C20: a drive, turn or stop call leaves the status (and the longitude
\* conversion) as it was, whatever it returns; it changes the PidLoop only
\* when it computes an effort (drive OnCourse, turn not aligned), and stop
\* publishes exactly one (0, 0) command.
C20_CommandsLeaveStatus ==
    [][call'.op \in {"drive", "turn", "stop"} =>
          /\ mRoverStatus' = mRoverStatus
          /\ mLongMeterInMinutes' = mLongMeterInMinutes
          /\ (call'.op = "drive" /\ call'.ret # "OnCourse") => mBearingPid' = mBearingPid
          /\ (call'.op = "turn" /\ call'.ret = TRUE) => mBearingPid' = mBearingPid
          /\ call'.op = "stop" =>
                /\ mBearingPid' = mBearingPid
                /\ published' = << AutonDriveControl(0, 0) >>]_vars

\* an OffCourse drive on a status with auton on, a navigation state, a path,
\* an obstacle, live targets, a cached target and counted hits, after a turn
\* has left an error in the PidLoop
C20_Witness ==
    /\ call.op = "drive"
    /\ call.ret = "OffCourse"
    /\ published = << >>
    /\ mBearingPid # PidInit
    /\ mRoverStatus.mAutonState
    /\ mRoverStatus.mCurrentState # "Off"
    /\ mRoverStatus.mPath # << >>
    /\ mRoverStatus.mObstacle # EmptyObstacle
    /\ mRoverStatus.mTargetLeft # EmptyTarget
    /\ mRoverStatus.mCTargetRight # EmptyTarget
    /\ mRoverStatus.countLeftHits > 0

----------------------------------------------------------------------------
(* The read of the front of the path (checked under SpecCache).            *)

\* C19: whenever updateRover compares the live left target's id with the id
\* at the front of the path, the path is not empty.
C19_FrontOnlyOfNonEmptyPath ==
    (AfterUpdate /\ call.readFront) => mRoverStatus.mPath # << >>

====
